---- MODULE Spec2Model ----
(***************************************************************************)
(* The note listing / search / pagination flow of the Notes application:   *)
(* the Home page (src/Home.tsx) with its debounce timer, load effect,      *)
(* client-side filter and sort and its render branches, on top of the      *)
(* notes store and the notes API.  The store and the API are not part of   *)
(* the sources at hand; they are modelled from the specification (§4.1,    *)
(* §6) and are marked so where they are defined.                           *)
(*                                                                         *)
(* Text is a sequence of one-character strings, time is in milliseconds.   *)
(*                                                                         *)
(* What the model fixes:                                                   *)
(*  - the API answers a request at the moment it is sent; the answer then  *)
(*    travels for any time, and answers arrive in any order;               *)
(*  - a loadNotes call can fail; a deleteNote call is answered with done   *)
(*    or with not-found;                                                   *)
(*  - the Load More button takes a click whenever it is rendered;          *)
(*  - last_update is a time in milliseconds, the resolution of Date;       *)
(*  - the sort mode changes nothing but the order of the displayed         *)
(*    sequence: Spec keeps it at its initial value, RenderSpec varies it   *)
(*    over every cache;                                                    *)
(*  - LoadsSucceedSpec is Spec without the failures of loadNotes.          *)
(***************************************************************************)
EXTENDS Integers, Sequences, FiniteSets, TLC

\* ------------------------------------------------------------------ bounds

\* Notes in the database when the page is mounted.
NumNotes == 3

\* Largest number of API calls in flight at once.
MaxInFlight == 2

\* Largest page index a call may ask for.
MaxPage == 2

\* Page size the store starts with.
PerPage == 2

\* Granularity of the passage of time, in milliseconds.
TickMs == 250

\* Longest cache the renderer is handed in RenderSpec.
MaxCache == 3

\* --------------------------------------------------------------- constants

\* The debounce delay of the search box (setTimeout(..., 500)).
DebounceMs == 500

\* ------------------------------------------------------------------- text

ToLower(c) ==
    CASE c = "A" -> "a"
      [] c = "B" -> "b"
      [] OTHER -> c

\* String.prototype.toLowerCase
toLowerCase(s) == [i \in DOMAIN s |-> ToLower(s[i])]

\* String.prototype.includes
includes(s, t) ==
    \E k \in 0..(Len(s) - Len(t)) : SubSeq(s, k + 1, k + Len(t)) = t

\* The letters in collation order; upper and lower case share a rank.
Letters == <<"a", "b", "x", "y", "z">>

Rank(c) == CHOOSE i \in DOMAIN Letters : Letters[i] = ToLower(c)

IsUpper(c) == ToLower(c) # c

\* UTF-16 code unit order: every upper-case letter precedes every lower-case one.
CodeUnit(c) == IF IsUpper(c) THEN Rank(c) ELSE Len(Letters) + Rank(c)

\* Lexicographic comparison of two texts under a key on characters: -1, 0 or 1.
RECURSIVE LexCompare(_, _, _)
LexCompare(a, b, level) ==
    IF a = <<>> /\ b = <<>> THEN 0
    ELSE IF a = <<>> THEN -1
    ELSE IF b = <<>> THEN 1
    ELSE LET ka == CASE level = "primary" -> Rank(Head(a))
                     [] level = "tertiary" -> IF IsUpper(Head(a)) THEN 1 ELSE 0
                     [] OTHER -> CodeUnit(Head(a))
             kb == CASE level = "primary" -> Rank(Head(b))
                     [] level = "tertiary" -> IF IsUpper(Head(b)) THEN 1 ELSE 0
                     [] OTHER -> CodeUnit(Head(b))
         IN  IF ka < kb THEN -1
             ELSE IF ka > kb THEN 1
             ELSE LexCompare(Tail(a), Tail(b), level)

\* Comparison by UTF-16 code units ("B" before "a").
CodeUnitCompare(a, b) == LexCompare(a, b, "codeunit")

\* String.prototype.localeCompare in the default collation: letters first,
\* whatever their case; texts that differ in case only are ordered lower case
\* first at the first difference.
localeCompare(a, b) ==
    LET p == LexCompare(a, b, "primary")
    IN  IF p # 0 THEN p ELSE LexCompare(a, b, "tertiary")

\* ------------------------------------------------------------------ notes

Txt1(c) == <<c>>
Txt2(c, d) == <<c, d>>

Note(id, title, content, ts) ==
    [note_id |-> id, note_title |-> title, note_content |-> content, last_update |-> ts]

\* The notes there are; the database holds the first NumNotes of them.
Pool ==
    <<Note(1, Txt1("b"), Txt1("x"), 3),
      Note(2, Txt1("A"), Txt1("y"), 1),
      Note(3, Txt1("B"), Txt1("A"), 1),
      Note(4, Txt2("a", "B"), <<>>, 2),
      Note(5, Txt1("B"), Txt2("z", "a"), 2)>>

Min(a, b) == IF a < b THEN a ELSE b

PoolNotes(n) == {Pool[i] : i \in 1..Min(n, Len(Pool))}

\* What the user can have in the search box.
Terms == {<<>>, Txt1("a"), Txt1("z")}

\* The same, with a term that matches in another case only.
RenderTerms == Terms \cup {Txt2("A", "b")}

SortModes == {"newest", "oldest", "title"}

RECURSIVE SeqsUpTo(_, _)
SeqsUpTo(S, n) ==
    IF n = 0 THEN {<<>>}
    ELSE LET shorter == SeqsUpTo(S, n - 1)
         IN  shorter \cup {Append(s, x) : s \in {t \in shorter : Len(t) = n - 1}, x \in S}

\* --------------------------------------------------------------- variables

VARIABLES
    user,                 \* useAuthStore().user is present
    searchTerm,           \* the raw text of the search box
    debouncedSearchTerm,  \* the debounced text
    sortBy,               \* the sort mode
    timers,               \* the pending debounce timers: [term, elapsed]
    notes, total, page, per_page, loading, error,   \* the notes store
    db,                   \* the notes the API holds, in the order it lists them
    inflight,             \* the API calls awaiting their response, oldest first
    uncaught,             \* a store operation has rejected into its caller
    quiet,                \* history: time since the last keystroke (or the mount)
    fired,                \* history: debounce callbacks run since the last keystroke
    burst,                \* history: keystrokes of the current burst, 2 for more
    last                  \* history: the step just taken

vars == <<user, searchTerm, debouncedSearchTerm, sortBy, timers, notes, total, page,
          per_page, loading, error, db, inflight, uncaught, quiet, fired, burst, last>>

homeVars == <<searchTerm, debouncedSearchTerm, sortBy, timers, quiet, fired, burst>>
storeVars == <<notes, total, page, per_page, loading, error, uncaught>>

NoError == "none"

\* The step just taken: its name, the position in flight of the call it settled
\* (0 when it settled none), and the length of the cache, the page cursor and
\* the number of loadNotes calls in flight as they were before it.
LoadsInFlight == Len(SelectSeq(inflight, LAMBDA c : c.kind = "load"))

Step(op, pos) ==
    [op |-> op, pos |-> pos, len |-> Len(notes), page |-> page, loads |-> LoadsInFlight]

\* --------------------------------------------------- the renderer (Home.tsx)

\* A mutant of the filter: the texts are compared as they are written.
MatchesTermExactCase(n, term) ==
    \/ includes(n.note_title, term)
    \/ includes(n.note_content, term)

\* notes.filter(note => title.toLowerCase().includes(term.toLowerCase()) || ...)
MatchesTerm(n, term) ==
    \/ includes(toLowerCase(n.note_title), toLowerCase(term))
    \/ includes(toLowerCase(n.note_content), toLowerCase(term))

FilterNotes(ns, term) == SelectSeq(ns, LAMBDA n : MatchesTerm(n, term))

\* A mutant of the comparator: titles are compared by code units.
CompareNotesByCodeUnit(mode, a, b) ==
    CASE mode = "newest" -> b.last_update - a.last_update
      [] mode = "oldest" -> a.last_update - b.last_update
      [] mode = "title" -> CodeUnitCompare(a.note_title, b.note_title)
      [] OTHER -> 0

\* The comparator of each sort mode: negative when a goes first.
CompareNotes(mode, a, b) ==
    CASE mode = "newest" -> b.last_update - a.last_update
      [] mode = "oldest" -> a.last_update - b.last_update
      [] mode = "title" -> localeCompare(a.note_title, b.note_title)
      [] OTHER -> 0

\* Array.prototype.sort is stable: an element moves left only past elements
\* that compare greater.
RECURSIVE InsertSorted(_, _, _)
InsertSorted(s, x, mode) ==
    IF s = <<>> \/ CompareNotes(mode, s[Len(s)], x) <= 0
    THEN Append(s, x)
    ELSE Append(InsertSorted(SubSeq(s, 1, Len(s) - 1), x, mode), s[Len(s)])

RECURSIVE SortNotes(_, _)
SortNotes(s, mode) ==
    IF s = <<>> THEN <<>>
    ELSE InsertSorted(SortNotes(SubSeq(s, 1, Len(s) - 1), mode), s[Len(s)], mode)

\* The arrays a recomputation of the memo works on: the store's array and the
\* one that filter() allocates.
MemoArrays(ns) == [notes |-> ns, filtered |-> <<>>]

\* notes.filter(...) fills a new array and leaves its receiver as it was.
filter(arrays, term) == [arrays EXCEPT !.filtered = FilterNotes(arrays.notes, term)]

\* Array.prototype.sort orders its receiver in place and returns it.
sort(arrays, receiver, mode) == [arrays EXCEPT ![receiver] = SortNotes(arrays[receiver], mode)]

\* A mutant of the memo: sort() is called on the store's array.
SortReceiverIsCache == "notes"

\* The array sort() is called on: filtered.sort(...).
SortReceiver == "filtered"

\* One recomputation of the memo: the arrays as it leaves them, and the array
\* it returns.
Recompute(ns, term, mode) ==
    LET arrays == sort(filter(MemoArrays(ns), term), SortReceiver, mode)
    IN  [notes |-> arrays.notes, result |-> arrays[SortReceiver]]

filteredAndSortedNotes(ns, term, mode) == Recompute(ns, term, mode).result

\* The store's array after the memo has been recomputed over it.
AfterRecompute(ns, term, mode) == Recompute(ns, term, mode).notes

Displayed == filteredAndSortedNotes(notes, searchTerm, sortBy)

\* The render branches.
ShowSpinner == loading /\ Len(notes) = 0
ShowError == ~ShowSpinner /\ error # NoError
ShowControls == ~ShowSpinner /\ Len(notes) > 0

\* A mutant of the empty-state branch: the cache is not looked at.
ShowEmptyStateOnNoResult == ~ShowSpinner /\ Len(Displayed) = 0

ShowEmptyState == ~ShowSpinner /\ Len(Displayed) = 0 /\ Len(notes) = 0
ShowNoMatches == ~ShowSpinner /\ Len(Displayed) = 0 /\ Len(notes) # 0
ShowGrid == ~ShowSpinner /\ Len(Displayed) # 0
ShowLoadMore == ShowGrid /\ Len(notes) < total

\* ------------------------------------------------ the notes API (spec §6)

ApiPage(matching, p, pp) == SubSeq(matching, (p - 1) * pp + 1, Min(p * pp, Len(matching)))

\* GET /notes?page=&per_page=&search=
ApiMatches(n, term) ==
    \/ includes(toLowerCase(n.note_title), toLowerCase(term))
    \/ includes(toLowerCase(n.note_content), toLowerCase(term))

ApiGetNotes(data, p, pp, term) ==
    LET matching == SelectSeq(data, LAMBDA n : ApiMatches(n, term))
    IN  [notes |-> ApiPage(matching, p, pp), total |-> Len(matching),
         page |-> p, per_page |-> pp]

\* DELETE /notes/{id}
ApiHasNote(data, id) == \E i \in DOMAIN data : data[i].note_id = id
ApiDeleteNote(data, id) == SelectSeq(data, LAMBDA n : n.note_id # id)

\* ---------------------------------------------- the notes store (spec §4.1)

\* A call in flight carries the answer the API gave when the request reached it.
LoadCall(data, p, pp, term) ==
    [kind |-> "load", pageIndex |-> p, per_page |-> pp, term |-> term,
     resp |-> ApiGetNotes(data, p, pp, term)]

DeleteCall(data, id) == [kind |-> "delete", id |-> id, found |-> ApiHasNote(data, id)]

\* A mutant of the merge: every page is appended.
MergeNotesAppends(cached, call) == cached \o call.resp.notes

\* A mutant of the merge: the store's page cursor, as it stands when the
\* response arrives, decides between replacing and appending.
MergeNotesByCursor(cached, call) ==
    IF page = 1 THEN call.resp.notes ELSE cached \o call.resp.notes

\* On success: page 1 replaces the cached collection, any other page appends.
MergeNotes(cached, call) ==
    IF call.pageIndex = 1 THEN call.resp.notes ELSE cached \o call.resp.notes

\* On success of a delete: the entry of that identifier leaves the cache.
EvictNote(cached, id) == SelectSeq(cached, LAMBDA n : n.note_id # id)

LoadFailed == "Failed to load notes"
NotFound == "Note not found"

\* The store as a record of its observable fields, and whether the operation
\* rejected into its caller.
Store == [notes |-> notes, total |-> total, page |-> page, per_page |-> per_page,
          loading |-> loading, error |-> error, uncaught |-> uncaught]

\* loadPage, from the call to the request: the loading indicator goes on.
LoadStarted(st) == [st EXCEPT !.loading = TRUE]

\* A mutant of the response: a failure leaves the loading indicator on.
LoadSettledStaysLoading(st, call, ok) ==
    IF ok
    THEN [st EXCEPT !.notes = MergeNotes(st.notes, call),
                    !.total = call.resp.total,
                    !.page = call.resp.page,
                    !.per_page = call.resp.per_page,
                    !.loading = FALSE]
    ELSE [st EXCEPT !.error = LoadFailed]

\* loadPage, the response: merge and cursors on success, the message on
\* failure; the loading indicator goes off either way.
LoadSettled(st, call, ok) ==
    IF ok
    THEN [st EXCEPT !.notes = MergeNotes(st.notes, call),
                    !.total = call.resp.total,
                    !.page = call.resp.page,
                    !.per_page = call.resp.per_page,
                    !.loading = FALSE]
    ELSE [st EXCEPT !.error = LoadFailed, !.loading = FALSE]

\* deleteNote, the response: the entry leaves the cache and the count drops,
\* or the API's not-found becomes the error message.
DeleteSettled(st, call) ==
    IF call.found
    THEN [st EXCEPT !.notes = EvictNote(st.notes, call.id), !.total = st.total - 1]
    ELSE [st EXCEPT !.error = NotFound]

\* clearError
ErrorCleared(st) == [st EXCEPT !.error = NoError]

SetStore(st) ==
    /\ notes' = st.notes
    /\ total' = st.total
    /\ page' = st.page
    /\ per_page' = st.per_page
    /\ loading' = st.loading
    /\ error' = st.error
    /\ uncaught' = st.uncaught

\* The store after the page has rendered a new cached collection: the memo has
\* been recomputed over it.
Rerendered(st) == [st EXCEPT !.notes = AfterRecompute(st.notes, searchTerm, sortBy)]

RemoveAt(s, i) == SubSeq(s, 1, i - 1) \o SubSeq(s, i + 1, Len(s))

\* ------------------------------------------------- the Home page (Home.tsx)

\* A mutant of the cleanup: the pending timer is left running.
CleanupTimersLeaks(ts) == ts

\* The cleanup of the debounce effect: clearTimeout(timer).
CleanupTimers(ts) == {}

\* setTimeout(() => setDebouncedSearchTerm(searchTerm), 500)
ArmTimer(term) == [term |-> term, elapsed |-> 0]

\* A mutant of the load effect: the search starts from the page cursor.
LoadEffectArgsAtCursor(pp, debounced) ==
    [pageIndex |-> page, per_page |-> pp, term |-> debounced]

\* The load effect: loadNotes(1, per_page, debouncedSearchTerm), given the page
\* size and the debounced term of the render it runs after.
LoadEffectArgs(pp, debounced) == [pageIndex |-> 1, per_page |-> pp, term |-> debounced]

\* handleLoadMore: loadNotes(page + 1, per_page, debouncedSearchTerm)
LoadMoreArgs == [pageIndex |-> page + 1, per_page |-> per_page, term |-> debouncedSearchTerm]

CallOf(args) == LoadCall(db, args.pageIndex, args.per_page, args.term)

InitialDb == SubSeq(Pool, 1, Min(NumNotes, Len(Pool)))

Init ==
    /\ user \in BOOLEAN
    /\ searchTerm = <<>>
    /\ debouncedSearchTerm = <<>>
    /\ sortBy = "newest"
    /\ timers = {ArmTimer(<<>>)}
    /\ notes = <<>>
    /\ total = 0
    /\ page = 1
    /\ per_page = PerPage
    /\ loading = user
    /\ error = NoError
    /\ db = InitialDb
    /\ inflight = IF user THEN <<CallOf(LoadEffectArgs(PerPage, <<>>))>> ELSE <<>>
    /\ uncaught = FALSE
    /\ quiet = 0
    /\ fired = 0
    /\ burst = 0
    /\ last = [op |-> "mount", pos |-> 0, len |-> 0, page |-> 1, loads |-> 0]

\* onChange of the search box: setSearchTerm(e.target.value); the memo is
\* recomputed for the new term, the debounce effect cleans up and arms a new
\* timer.
Keystroke(t) ==
    /\ ShowControls
    /\ t # searchTerm
    /\ searchTerm' = t
    /\ timers' = CleanupTimers(timers) \cup {ArmTimer(t)}
    /\ quiet' = 0
    /\ fired' = 0
    /\ burst' = IF quiet < DebounceMs THEN Min(burst + 1, 2) ELSE 1
    /\ last' = Step("key", 0)
    /\ notes' = AfterRecompute(notes, t, sortBy)
    /\ UNCHANGED <<user, debouncedSearchTerm, sortBy, db, inflight>>
    /\ UNCHANGED <<total, page, per_page, loading, error, uncaught>>

\* onChange of the sort select: setSortBy(e.target.value); the memo is
\* recomputed for the new mode.
SetSortBy(m) ==
    /\ ShowControls
    /\ m # sortBy
    /\ sortBy' = m
    /\ last' = Step("sort", 0)
    /\ notes' = AfterRecompute(notes, searchTerm, m)
    /\ UNCHANGED <<user, searchTerm, debouncedSearchTerm, timers, quiet, fired, burst,
                   db, inflight>>
    /\ UNCHANGED <<total, page, per_page, loading, error, uncaught>>

\* TickMs pass.  A timer that reaches its delay runs its callback, and when the
\* debounced term changes the load effect runs.
Elapse ==
    LET aged == {[t EXCEPT !.elapsed = @ + TickMs] : t \in timers}
        due == {t \in aged : t.elapsed >= DebounceMs}
        newest == CHOOSE t \in due : \A u \in due : t.elapsed <= u.elapsed
        debounced == IF due = {} THEN debouncedSearchTerm ELSE newest.term
        call == CallOf(LoadEffectArgs(per_page, debounced))
    IN  /\ timers' = aged \ due
        /\ debouncedSearchTerm' = debounced
        /\ quiet' = Min(quiet + TickMs, DebounceMs)
        /\ fired' = Min(fired + Cardinality(due), 2)
        /\ IF debounced # debouncedSearchTerm /\ user
           THEN /\ Len(inflight) < MaxInFlight
                /\ inflight' = Append(inflight, call)
                /\ SetStore(LoadStarted(Store))
                /\ last' = Step("debounce", 0)
           ELSE /\ UNCHANGED inflight
                /\ UNCHANGED storeVars
                /\ last' = Step(IF due = {} THEN "time" ELSE "debounce", 0)
        /\ UNCHANGED <<user, searchTerm, sortBy, burst, db>>

\* useAuthStore delivers the user: the load effect runs.
UserArrives ==
    LET call == CallOf(LoadEffectArgs(per_page, debouncedSearchTerm))
    IN  /\ ~user
        /\ Len(inflight) < MaxInFlight
        /\ user' = TRUE
        /\ inflight' = Append(inflight, call)
        /\ SetStore(LoadStarted(Store))
        /\ last' = Step("user", 0)
        /\ UNCHANGED db
        /\ UNCHANGED homeVars

\* The Load More button.
handleLoadMore ==
    LET call == CallOf(LoadMoreArgs)
    IN  /\ ShowLoadMore
        /\ Len(inflight) < MaxInFlight
        /\ call.pageIndex <= MaxPage
        /\ inflight' = Append(inflight, call)
        /\ SetStore(LoadStarted(Store))
        /\ last' = Step("more", 0)
        /\ UNCHANGED <<user, db>>
        /\ UNCHANGED homeVars

\* The delete button of a displayed note, confirmed: deleteNote(noteId).
handleDeleteNote(id) ==
    LET call == DeleteCall(db, id)
    IN  /\ ShowGrid
        /\ \E i \in DOMAIN Displayed : Displayed[i].note_id = id
        /\ Len(inflight) < MaxInFlight
        /\ db' = IF call.found THEN ApiDeleteNote(db, id) ELSE db
        /\ inflight' = Append(inflight, call)
        /\ last' = Step("delete", 0)
        /\ UNCHANGED user
        /\ UNCHANGED storeVars
        /\ UNCHANGED homeVars

\* The Dismiss button of the error banner: clearError().
clearError ==
    /\ ShowError
    /\ SetStore(ErrorCleared(Store))
    /\ last' = Step("dismiss", 0)
    /\ UNCHANGED <<user, db, inflight>>
    /\ UNCHANGED homeVars

\* ------------------------------------------------- responses (spec §4.1)

\* The response of loadNotes call i arrives; ok is whether the call succeeded.
\* A new page size makes the load effect run again.
SettleLoad(i, ok) ==
    LET call == inflight[i]
        rest == RemoveAt(inflight, i)
        st == Rerendered(LoadSettled(Store, call, ok))
    IN  /\ call.kind = "load"
        /\ last' = Step(IF ok THEN "loadOk" ELSE "loadFail", i)
        /\ IF st.per_page # per_page /\ user
           THEN /\ inflight' = Append(rest, CallOf(LoadEffectArgs(st.per_page, debouncedSearchTerm)))
                /\ SetStore(LoadStarted(st))
           ELSE /\ inflight' = rest
                /\ SetStore(st)
        /\ UNCHANGED <<user, db>>
        /\ UNCHANGED homeVars

\* The response of deleteNote call i arrives: done, or 404 when the API no
\* longer had the note.
SettleDelete(i) ==
    LET call == inflight[i]
    IN  /\ call.kind = "delete"
        /\ inflight' = RemoveAt(inflight, i)
        /\ SetStore(Rerendered(DeleteSettled(Store, call)))
        /\ last' = Step(IF call.found THEN "delOk" ELSE "delFail", i)
        /\ UNCHANGED <<user, db>>
        /\ UNCHANGED homeVars

Next ==
    \/ \E t \in Terms : Keystroke(t)
    \/ Elapse
    \/ UserArrives
    \/ handleLoadMore
    \/ \E n \in PoolNotes(NumNotes) : handleDeleteNote(n.note_id)
    \/ clearError
    \/ \E i \in DOMAIN inflight, ok \in BOOLEAN : SettleLoad(i, ok)
    \/ \E i \in DOMAIN inflight : SettleDelete(i)

Spec == Init /\ [][Next]_vars

\* The page when no loadNotes call fails: every response is a success.
LoadsSucceedNext ==
    \/ \E t \in Terms : Keystroke(t)
    \/ Elapse
    \/ UserArrives
    \/ handleLoadMore
    \/ \E n \in PoolNotes(NumNotes) : handleDeleteNote(n.note_id)
    \/ clearError
    \/ \E i \in DOMAIN inflight : SettleLoad(i, TRUE)
    \/ \E i \in DOMAIN inflight : SettleDelete(i)

LoadsSucceedSpec == Init /\ [][LoadsSucceedNext]_vars

\* The renderer alone: any cache, every search term and sort mode.
RenderInit ==
    /\ user = TRUE
    /\ searchTerm = <<>>
    /\ debouncedSearchTerm = <<>>
    /\ sortBy = "newest"
    /\ timers = {}
    /\ notes \in SeqsUpTo(PoolNotes(Len(Pool)), MaxCache)
    /\ total = Len(notes)
    /\ page = 1
    /\ per_page = PerPage
    /\ loading = FALSE
    /\ error = NoError
    /\ db = InitialDb
    /\ inflight = <<>>
    /\ uncaught = FALSE
    /\ quiet = DebounceMs
    /\ fired = 1
    /\ burst = 0
    /\ last = [op |-> "mount", pos |-> 0, len |-> 0, page |-> 1, loads |-> 0]

RenderNext ==
    \/ \E t \in RenderTerms : Keystroke(t)
    \/ \E m \in SortModes : SetSortBy(m)

RenderSpec == RenderInit /\ [][RenderNext]_vars

\* ------------------------------------------------------------------ claims

\* The call a step has put in flight, when it has put one.
Issued == Len(inflight') = Len(inflight) + 1
NewCall == inflight'[Len(inflight')]

\* C1: during a burst of keystrokes, each less than 500 ms after the previous
\* one, no debounce callback runs; once 500 ms have passed without a keystroke
\* exactly one callback has run and debouncedSearchTerm is the last value typed.
C1_DebounceOnce ==
    /\ quiet < DebounceMs => fired = 0
    /\ quiet >= DebounceMs => fired = 1 /\ debouncedSearchTerm = searchTerm

\* A burst of two keystrokes or more has been followed by 500 ms of quiet, and
\* the debounced term has taken the value of the last of them.
C1_Witness ==
    /\ burst = 2
    /\ quiet >= DebounceMs
    /\ fired = 1
    /\ debouncedSearchTerm = searchTerm
    /\ debouncedSearchTerm # <<>>

\* C2: on mount with a user, when the user arrives, when the debounced term
\* changes and when the page size changes, a load is issued for page 1 with the
\* current per_page and the debounced term.
C2_FirstPageOnSearch ==
    /\ user => inflight = <<LoadCall(InitialDb, 1, per_page, debouncedSearchTerm)>>
    /\ [][/\ (user' /\ (debouncedSearchTerm' # debouncedSearchTerm \/ ~user))
             => /\ Issued
                /\ NewCall = LoadCall(db, 1, per_page', debouncedSearchTerm')
                /\ loading'
          /\ (user' /\ per_page' # per_page)
             => /\ inflight' # <<>>
                /\ NewCall = LoadCall(db, 1, per_page', debouncedSearchTerm')]_vars

\* A new search has just been issued while the page cursor stood beyond 1.
C2_Witness ==
    /\ last.op = "debounce"
    /\ last.page > 1
    /\ inflight # <<>>
    /\ inflight[Len(inflight)].kind = "load"
    /\ inflight[Len(inflight)].pageIndex = 1
    /\ inflight[Len(inflight)].term = debouncedSearchTerm
    /\ debouncedSearchTerm # <<>>

\* The call whose response a step has delivered.
SettledCall == inflight[last'.pos]
LoadSucceeded == last'.op = "loadOk"
LoadFailedNow == last'.op = "loadFail"

\* C3: when a loadPage call for page 1 succeeds, the cache afterwards is the
\* sequence of notes of its response; no note cached before and absent from
\* the response remains.
C3_FirstPageReplaces ==
    [][(LoadSucceeded /\ SettledCall.pageIndex = 1)
       => /\ notes' = SettledCall.resp.notes
          /\ \A i \in DOMAIN notes :
               (\A j \in DOMAIN SettledCall.resp.notes : SettledCall.resp.notes[j] # notes[i])
               => \A k \in DOMAIN notes' : notes'[k] # notes[i]]_vars

\* A page-1 response has just replaced a longer cache.
C3_Witness ==
    /\ last.op = "loadOk"
    /\ page = 1
    /\ notes # <<>>
    /\ last.len > Len(notes)

\* C4: Load More asks for page + 1 with per_page and the debounced term; when
\* a call for a page beyond 1 succeeds its notes are appended to the cache, in
\* order, so that the length grows by the length returned; and the cache is
\* never longer than total.
C4_AppendWithinTotal ==
    /\ [](Len(notes) <= total)
    /\ [][/\ last'.op = "more"
             => Issued /\ NewCall = LoadCall(db, page + 1, per_page, debouncedSearchTerm)
          /\ (LoadSucceeded /\ SettledCall.pageIndex > 1)
             => /\ notes' = notes \o SettledCall.resp.notes
                /\ Len(notes') = Len(notes) + Len(SettledCall.resp.notes)]_vars

\* C5: with two loadPage calls or more in flight, a response is merged by the
\* page index of its own call, replacing for 1 and appending otherwise,
\* whatever the page cursor is when it arrives.
C5_MergeByOwnIndex ==
    [][(LoadSucceeded /\ LoadsInFlight >= 2)
       => notes' = IF SettledCall.pageIndex = 1
                   THEN SettledCall.resp.notes
                   ELSE notes \o SettledCall.resp.notes]_vars

\* Of two loadPage calls in flight the later one has just been answered first,
\* and the cursor moved with it.
C5_Witness ==
    /\ last.op = "loadOk"
    /\ last.loads >= 2
    /\ last.pos >= 2
    /\ page # last.page
    /\ notes # <<>>

\* C6 as claimed: loading is true for as long as a loadPage call is in flight
\* and false once it has settled; a failure records a message, leaves the
\* cache, total and per_page alone and the page cursor where it was when the
\* call was made, and nothing is thrown.
C6_LoadingForTheCall ==
    /\ [](LoadsInFlight > 0 => loading)
    /\ [](~uncaught)
    /\ [][/\ (Issued /\ NewCall.kind = "load") => loading'
          /\ (LoadSucceeded \/ LoadFailedNow) => ~loading'
          /\ LoadFailedNow
             => /\ error' # NoError
                /\ notes' = notes /\ total' = total /\ per_page' = per_page
                /\ page' = page
                /\ SettledCall.pageIndex > 1 => page' = SettledCall.pageIndex - 1]_vars

\* C6 as amended: loading is set when a loadPage call is issued and cleared
\* when any loadPage call settles, so it is on only while a call is in flight;
\* a failure records a message and changes nothing else of the store; nothing
\* is thrown.
C6_LoadingLastSettledWins ==
    /\ [](loading => LoadsInFlight > 0)
    /\ [](~uncaught)
    /\ [][/\ (Issued /\ NewCall.kind = "load") => loading'
          /\ (LoadSucceeded \/ LoadFailedNow) => ~loading'
          /\ LoadFailedNow
             => /\ error' # NoError
                /\ notes' = notes /\ total' = total /\ per_page' = per_page
                /\ page' = page]_vars

\* One of two loadPage calls has just failed: the message is set, the cache is
\* kept and loading is off although the other call is still in flight.
C6_Witness ==
    /\ last.op = "loadFail"
    /\ last.loads >= 2
    /\ LoadsInFlight >= 1
    /\ ~loading
    /\ error = LoadFailed
    /\ Len(notes) = last.len
    /\ notes # <<>>

\* C7: a successful deleteNote(id) takes exactly one entry out of the cache,
\* the one of that id, keeps the others in their order and lowers total by
\* one; a deleteNote the API answers with not-found records that error and
\* leaves the cache and total alone.
C7_DeleteExactlyOne ==
    [][/\ last'.op = "delOk"
          => /\ Len(notes') = Len(notes) - 1
             /\ \E i \in DOMAIN notes :
                  /\ notes[i].note_id = SettledCall.id
                  /\ notes' = RemoveAt(notes, i)
             /\ total' = total - 1
       /\ last'.op = "delFail"
          => /\ error' = NotFound
             /\ notes' = notes
             /\ total' = total]_vars

\* Containment of a term in a text, letter by letter, whatever the case.
ContainsIgnoringCase(text, term) ==
    \E k \in 0..(Len(text) - Len(term)) :
        \A j \in 1..Len(term) : ToLower(text[k + j]) = ToLower(term[j])

ShouldShow(n) ==
    \/ ContainsIgnoringCase(n.note_title, searchTerm)
    \/ ContainsIgnoringCase(n.note_content, searchTerm)

Count(seq, n) == Cardinality({i \in DOMAIN seq : seq[i] = n})

AllNotes == PoolNotes(Len(Pool))

\* C8: the displayed sequence holds the cached notes whose title or content
\* contains the raw search term, case ignored, as often as the cache holds
\* them, and nothing else; with an empty term it holds every cached note.
C8_FilterByRawTerm ==
    /\ \A n \in AllNotes :
         Count(Displayed, n) = IF ShouldShow(n) THEN Count(notes, n) ELSE 0
    /\ \A i \in DOMAIN Displayed : \E j \in DOMAIN notes : notes[j] = Displayed[i]
    /\ searchTerm = <<>> => Len(Displayed) = Len(notes)

\* A term in another case than the title it matches keeps one note and hides
\* another.
C8_Witness ==
    /\ searchTerm = Txt2("A", "b")
    /\ last.op = "key"
    /\ Len(Displayed) >= 1
    /\ Len(Displayed) < Len(notes)
    /\ \E i \in DOMAIN Displayed : Displayed[i].note_title # searchTerm

\* a is at or before b in the order of the letters, case ignored.
FoldedAtOrBefore(a, b) ==
    \E k \in 0..Min(Len(a), Len(b)) :
        /\ \A j \in 1..k : Rank(a[j]) = Rank(b[j])
        /\ \/ k = Len(a)
           \/ k < Len(a) /\ k < Len(b) /\ Rank(a[k + 1]) < Rank(b[k + 1])

Shown == SelectSeq(notes, ShouldShow)

WithTitle(seq, title) == SelectSeq(seq, LAMBDA n : n.note_title = title)

\* C9: the displayed sequence is a permutation of the filtered notes; newest:
\* timestamps never increase; oldest: they never decrease; title: titles never
\* decrease in the order of the letters, case ignored, and notes of one title
\* keep their cache order.
C9_SortedByMode ==
    /\ \A n \in AllNotes : Count(Displayed, n) = Count(Shown, n)
    /\ Len(Displayed) = Len(Shown)
    /\ \A i, j \in DOMAIN Displayed :
         i < j =>
           CASE sortBy = "newest" -> Displayed[i].last_update >= Displayed[j].last_update
             [] sortBy = "oldest" -> Displayed[i].last_update <= Displayed[j].last_update
             [] sortBy = "title" -> FoldedAtOrBefore(Displayed[i].note_title,
                                                     Displayed[j].note_title)
    /\ sortBy = "title"
       => \A n \in AllNotes :
            WithTitle(Displayed, n.note_title) = WithTitle(Shown, n.note_title)

\* Sorted by title: two notes titled "B" keep their cache order, and stand
\* after the "aB" that the cache held behind them.
C9_Witness ==
    /\ sortBy = "title"
    /\ last.op = "sort"
    /\ Displayed # Shown
    /\ \E i, j \in DOMAIN Displayed :
         /\ i < j
         /\ Displayed[i].note_title = Displayed[j].note_title
         /\ Displayed[i].note_id # Displayed[j].note_id
    /\ \E i, j \in DOMAIN Displayed :
         /\ i < j
         /\ Displayed[i].note_title = Txt2("a", "B")
         /\ Displayed[j].note_title = Txt1("B")

NoNoteMatches == \A i \in DOMAIN notes : ~ShouldShow(notes[i])

\* C10 as claimed: the "create your first note" state is shown when the cache
\* is empty, the "no matches" message exactly when the cache is not empty and
\* the filtered result is, neither when the filtered result is not empty.
C10_EmptyStatesByCache ==
    /\ Len(notes) = 0 => ShowEmptyState
    /\ ShowNoMatches <=> (Len(notes) > 0 /\ NoNoteMatches)
    /\ ~NoNoteMatches => (~ShowEmptyState /\ ~ShowNoMatches)
    /\ ~(ShowEmptyState /\ ShowNoMatches)

\* C10 as amended: the "create your first note" state is shown exactly when the
\* cache is empty and loading is off (the spinner takes the page otherwise).
C10_EmptyStatesUnlessLoading ==
    /\ ShowEmptyState <=> (Len(notes) = 0 /\ ~loading)
    /\ (Len(notes) = 0 /\ loading) => (ShowSpinner /\ ~ShowEmptyState /\ ~ShowNoMatches)
    /\ ShowNoMatches <=> (Len(notes) > 0 /\ NoNoteMatches)
    /\ ~NoNoteMatches => (~ShowEmptyState /\ ~ShowNoMatches)
    /\ ~(ShowEmptyState /\ ShowNoMatches)

\* The cache holds notes and the term typed matches none of them.
C10_Witness ==
    /\ ShowNoMatches
    /\ ~ShowEmptyState
    /\ notes # <<>>
    /\ searchTerm # <<>>
    /\ last.op = "key"
\* The steps that write the cached collection: the responses of the store's
\* operations.
StoreWrites == {"loadOk", "delOk"}

\* C11: recomputing the displayed sequence, for any raw search term and any
\* sort mode, leaves the cached collection with the same elements in the same
\* order; only the store's operations change it.
C11_RecomputeLeavesCache ==
    /\ [](\A t \in RenderTerms, m \in SortModes : AfterRecompute(notes, t, m) = notes)
    /\ [][last'.op \notin StoreWrites => notes' = notes]_vars

\* The displayed sequence has just been recomputed into an order that is not
\* the order of the cache, under a search term that hides part of the cache.
C11_Witness ==
    /\ last.op \in {"key", "sort"}
    /\ searchTerm # <<>>
    /\ Len(Displayed) >= 2
    /\ Len(Displayed) < Len(notes)
    /\ Displayed # FilterNotes(notes, searchTerm)
    /\ notes # SortNotes(notes, sortBy)
    /\ Len(notes) = last.len

\* C12: the cached collection holds at most one entry per note identifier, in
\* every reachable state, also when Load More is clicked again before the
\* earlier call has settled and when responses arrive out of order.
C12_OneEntryPerId ==
    \A i, j \in DOMAIN notes : notes[i].note_id = notes[j].note_id => i = j

\* Nothing is left that can change the debounced term or the cache's source:
\* no debounce timer is pending and no loadPage call is in flight.
SearchSettled == timers = {} /\ LoadsInFlight = 0

\* C13: once every loadPage call has settled successfully and the debounced
\* term has stopped changing, every cached note is one the API returns for the
\* current debounced term; the response of a call made for an earlier term has
\* not ended up as the cache or as part of it.
C13_OnlyCurrentTerm ==
    (user /\ SearchSettled)
    => \A i \in DOMAIN notes : ApiMatches(notes[i], debouncedSearchTerm)

\* C14: whenever the raw search term is not empty the search input is on the
\* page, so that the term can be changed or cleared; also after the search for
\* the debounced term has returned no note and the cache has become empty.
C14_SearchInputShown == searchTerm # <<>> => ShowControls

====
